---- MODULE Spec2Model ----
(***************************************************************************)
(* Chatwoot balancer: the assignment workflow                              *)
(* (auto_assign_team_then_agent), the least-loaded selection               *)
(* (pick_least_loaded_assignee) and the conversation pagination            *)
(* (_iter_conversations) of src/chatwoot_balancer.py.                      *)
(*                                                                         *)
(* Python values are encoded as follows.                                   *)
(*   - a str is the sequence of its code points ("10" is <<49, 48>>);      *)
(*   - a JSON scalar is a record [t, n, s]: t is "null", "int" or "str",   *)
(*     n the int, s the str;                                               *)
(*   - a list of conversation records is run-length encoded: a sequence    *)
(*     of runs [rec, n], n >= 1 copies of rec in a row;                    *)
(*   - a dict with string keys and int values (the load map) is a          *)
(*     function whose DOMAIN is the key set.                               *)
(* Remote payloads stay within the types the source annotates: a POST      *)
(* body is a mapping (Dict[str, Any] of _post_json), a conversation        *)
(* payload is a mapping (Dict[str, Any] of _simplify_conversation_payload).*)
(***************************************************************************)
EXTENDS Integers, Sequences, FiniteSets, TLC

VARIABLES
    pc,        \* workflow position (a state of the workflow, Idle, Done or Raised)
    args,      \* the invocation's arguments: team_id, prioridade, observacoes
    cfg,       \* AUTO_ASSIGN_PRIOS, fixed at import time
    conv,      \* the remote conversation: assignee, team, priority
    conv0,     \* the remote conversation when the workflow was invoked
    current,   \* the status fetched in CheckAssigned
    calls,     \* the remote calls issued so far, in order
    entered,   \* the workflow states entered so far, in order
    result,    \* the workflow's return value
    pk,        \* pick_least_loaded_assignee: position, members, loads, return value
    it,        \* _iter_conversations: page, requests, yielded records, position
    two,       \* two overlapping invocations for one team, and the remote listing
    response   \* what the /auto_assign endpoint answered: status code and body

vars == <<pc, args, cfg, conv, conv0, current, calls, entered, result, pk, it, two,
         response>>

(***************************************************************************)
(* Python scalars and strings                                              *)
(***************************************************************************)
JNull == [t |-> "null", n |-> 0, s |-> <<>>]

JInt(k) == [t |-> "int", n |-> k, s |-> <<>>]

JStr(cs) == [t |-> "str", n |-> 0, s |-> cs]

\* a key that the mapping does not hold
Absent == [t |-> "absent", n |-> 0, s |-> <<>>]

\* d.get(key), v being what d holds under key
Get(v) == IF v.t = "absent" THEN JNull ELSE v

\* bool(v): None, 0 and "" are falsy
Truthy(v) ==
    CASE v.t = "null" -> FALSE
      [] v.t = "int"  -> v.n # 0
      [] OTHER        -> v.s # <<>>

\* a or b
PyOr(a, b) == IF Truthy(a) THEN a ELSE b

RECURSIVE IntToStr(_)
\* str(n) of a non-negative int
IntToStr(n) ==
    IF n < 10 THEN <<48 + n>> ELSE Append(IntToStr(n \div 10), 48 + (n % 10))

\* str(v) of a scalar: "None" for None
PyStr(v) ==
    CASE v.t = "null" -> <<78, 111, 110, 101>>
      [] v.t = "int"  -> IntToStr(v.n)
      [] OTHER        -> v.s

\* str.isdigit(), on the ASCII digits
IsDigit(s) == Len(s) > 0 /\ \A i \in 1..Len(s) : s[i] \in 48..57

RECURSIVE IntOf(_)
\* int(s) of a string of digits
IntOf(s) ==
    IF s = <<>> THEN 0
    ELSE 10 * IntOf(SubSeq(s, 1, Len(s) - 1)) + (s[Len(s)] - 48)

RECURSIVE StrLess(_, _)
\* a < b on str: lexicographic by code point
StrLess(a, b) ==
    IF b = <<>> THEN FALSE
    ELSE IF a = <<>> THEN TRUE
    ELSE IF a[1] # b[1] THEN a[1] < b[1]
    ELSE StrLess(Tail(a), Tail(b))

\* str.lower(), on ASCII
Lower(s) == [i \in 1..Len(s) |-> IF s[i] \in 65..90 THEN s[i] + 32 ELSE s[i]]

(***************************************************************************)
(* Run-length-encoded lists of conversation records                        *)
(***************************************************************************)
RECURSIVE RLen(_)
\* len() of a run-length-encoded list
RLen(l) == IF l = <<>> THEN 0 ELSE l[1].n + RLen(Tail(l))

\* l with the run r added at its end
RAppend(l, r) ==
    IF l # <<>> /\ l[Len(l)].rec = r.rec
    THEN [l EXCEPT ![Len(l)].n = @ + r.n]
    ELSE Append(l, r)

RECURSIVE RCat(_, _)
\* a + b
RCat(a, b) == IF b = <<>> THEN a ELSE RCat(RAppend(a, b[1]), Tail(b))

\* a conversation record; dict is FALSE for a list element that is no mapping
Conv(team, assignee) == [dict |-> TRUE, team_id |-> team, assignee_id |-> assignee]

NotADict == [dict |-> FALSE, team_id |-> JNull, assignee_id |-> JNull]

(***************************************************************************)
(* HTTP responses and their bodies                                         *)
(*   a response is [code, body]: code 0 stands for a RequestException      *)
(*   (no response at all), any other code is the status of the response;   *)
(*   body.t = "text": the body is no JSON;                                 *)
(*   body.t = "list": the body is a JSON array, items;                     *)
(*   body.t = "dict": the body is a mapping; a listing body holds the      *)
(*               array items under key (key = "" when it holds no array),  *)
(*               obj is its scalar fields read as a conversation record.   *)
(***************************************************************************)
Http(code, body) == [code |-> code, body |-> body]

TextBody == [t |-> "text"]

\* Python's None as a payload
None == [t |-> "none"]

PageList(items) == [t |-> "list", key |-> "", items |-> items, obj |-> Conv(JNull, JNull)]

PageDict(key, items, obj) == [t |-> "dict", key |-> key, items |-> items, obj |-> obj]

\* _get_json: the parsed body; None on a RequestException, on a status that
\* raise_for_status rejects, and on a body that is no JSON
get_json(resp) ==
    IF resp.code = 0 \/ resp.code >= 400 \/ resp.body.t = "text"
    THEN None
    ELSE resp.body

\* the body {}
EmptyDict == [t |-> "emptydict"]

\* a body that is a JSON number or string
ScalarBody(v) == [t |-> "scalar", v |-> v]

\* `not payload`: None, [], {}, 0, ""
PayloadFalsy(payload) ==
    \/ payload.t = "none"
    \/ payload.t = "list" /\ payload.items = <<>>
    \/ payload.t = "emptydict"
    \/ payload.t = "scalar" /\ ~Truthy(payload.v)

\* extract_list_like with its list branch taken for [payload]
extract_list_like_wrapping(payload, prefer_keys) ==
    CASE payload.t = "none" -> <<>>
      [] payload.t = "list" -> <<[rec |-> NotADict, n |-> 1]>>
      [] payload.t = "dict" ->
           IF \E i \in 1..Len(prefer_keys) : prefer_keys[i] = payload.key
           THEN payload.items
           ELSE <<[rec |-> payload.obj, n |-> 1]>>
      [] payload.t = "emptydict" -> <<[rec |-> Conv(JNull, JNull), n |-> 1]>>
      [] OTHER -> <<>>

\* lines 138-148; a mapping of this model holds a list under at most one key
extract_list_like(payload, prefer_keys) ==
    CASE payload.t = "none" -> <<>>
      [] payload.t = "list" -> payload.items
      [] payload.t = "dict" ->
           IF \E i \in 1..Len(prefer_keys) : prefer_keys[i] = payload.key
           THEN payload.items
           ELSE <<[rec |-> payload.obj, n |-> 1]>>
      [] payload.t = "emptydict" -> <<[rec |-> Conv(JNull, JNull), n |-> 1]>>
      [] OTHER -> <<>>

DefaultPreferKeys ==
    <<"data", "results", "items", "payload", "conversations", "list", "records">>

IterPreferKeys == <<"data", "payload", "conversations", "items", "results">>

(***************************************************************************)
(* _iter_conversations                                                     *)
(***************************************************************************)
DefaultPerPage == 50

DefaultMaxPages == 200

\* the generator before its first request; fetched is convs, the records of
\* the page last requested (none when the request gave no payload)
IterStart == [page |-> 1, requests |-> 0, failed |-> 0, yielded |-> <<>>,
              fetched |-> <<>>, lastlen |-> 0, done |-> FALSE]

\* the loop without the team filter: every mapping record is yielded
KeepRecordAnyTeam(c, team_id) == c.dict

\* the in-memory team filter of one record
KeepRecord(c, team_id) ==
    /\ c.dict
    /\ \/ team_id.t = "null"
       \/ c.team_id.t = "null"
       \/ PyStr(c.team_id) = PyStr(team_id)

RECURSIVE FilterRuns(_, _)
FilterRuns(l, team_id) ==
    IF l = <<>> THEN <<>>
    ELSE LET rest == FilterRuns(Tail(l), team_id)
         IN  IF KeepRecord(l[1].rec, team_id) THEN RCat(<<l[1]>>, rest) ELSE rest

\* the stop test with the exactly-full page taken for the last one
LastPageAtMost(convs, per_page) == RLen(convs) <= per_page

\* the short-page test that ends the pagination
LastPage(convs, per_page) == RLen(convs) < per_page

\* one turn of the while loop: request st.page, yield its records, go on or stop
IterPage(st, resp, team_id, per_page) ==
    LET payload == get_json(resp)
        convs   == extract_list_like(payload, IterPreferKeys)
    IN  IF PayloadFalsy(payload)
        THEN [st EXCEPT !.requests = @ + 1,
                        !.failed = IF payload.t = "none" THEN @ + 1 ELSE @,
                        !.fetched = <<>>, !.lastlen = 0, !.done = TRUE]
        ELSE IF convs = <<>>
        THEN [st EXCEPT !.requests = @ + 1, !.fetched = <<>>, !.lastlen = 0,
                        !.done = TRUE]
        ELSE IF LastPage(convs, per_page)
        THEN [st EXCEPT !.requests = @ + 1, !.fetched = convs, !.lastlen = RLen(convs),
                        !.yielded = RCat(@, FilterRuns(convs, team_id)),
                        !.done = TRUE]
        ELSE [st EXCEPT !.requests = @ + 1, !.fetched = convs, !.lastlen = RLen(convs),
                        !.yielded = RCat(@, FilterRuns(convs, team_id)),
                        !.page = @ + 1]

\* the loop condition
IterRunning(st, max_pages) == ~st.done /\ st.page <= max_pages

\* the remote's answer to the request of page p: resps[p], nothing beyond
RespAt(resps, p) == IF p <= Len(resps) THEN resps[p] ELSE Http(0, TextBody)

RECURSIVE IterRun(_, _, _, _, _)
IterRun(st, resps, team_id, per_page, max_pages) ==
    IF IterRunning(st, max_pages)
    THEN IterRun(IterPage(st, RespAt(resps, st.page), team_id, per_page),
                 resps, team_id, per_page, max_pages)
    ELSE st

\* the generator consumed to its end
iter_conversations(resps, team_id) ==
    IterRun(IterStart, resps, team_id, DefaultPerPage, DefaultMaxPages)

(***************************************************************************)
(* get_active_load_by_assignee                                             *)
(***************************************************************************)
\* the loop body with a record without assignee counted under str(None)
CountOneWithNone(counts, run) ==
    LET key == PyStr(run.rec.assignee_id)
    IN  IF key \in DOMAIN counts
        THEN [counts EXCEPT ![key] = @ + run.n]
        ELSE counts @@ (key :> run.n)

\* lines 264-268 for the run.n equal records of one run: a record without
\* assignee_id is skipped, any other adds one under str(aid)
CountOne(counts, run) ==
    LET aid == run.rec.assignee_id
        key == PyStr(aid)
    IN  IF aid.t = "null" THEN counts
        ELSE IF key \in DOMAIN counts
        THEN [counts EXCEPT ![key] = @ + run.n]
        ELSE counts @@ (key :> run.n)

RECURSIVE CountRuns(_, _)
\* the for loop over the records the generator yields
CountRuns(l, counts) ==
    IF l = <<>> THEN counts ELSE CountRuns(Tail(l), CountOne(counts, l[1]))

get_active_load_by_assignee(yielded) == CountRuns(yielded, <<>>)

(***************************************************************************)
(* get_team_members                                                        *)
(***************************************************************************)
\* the roster body: a JSON array of items
RosterList(items) == [t |-> "list", key |-> "", items |-> items]

\* the roster body as a mapping: the array items under key, or (key = "") a
\* single item, obj
RosterDict(key, items, obj) == [t |-> "dict", key |-> key, items |-> items, obj |-> obj]

\* the roster body as a JSON scalar
RosterScalar == [t |-> "scalar"]

RosterKeys == {"team_members", "members", "data", "results", "items"}

\* item["user"] when it is no mapping
NoUser == [t |-> "absent", id |-> Absent, user_id |-> Absent, name |-> Absent,
           full_name |-> Absent, email |-> Absent]

\* an element of the roster array: dict is FALSE for one that is no mapping,
\* a field is Absent when the mapping does not hold the key
BareItem ==
    [dict |-> TRUE, id |-> Absent, name |-> Absent, full_name |-> Absent,
     user_id |-> Absent, user_name |-> Absent, member_id |-> Absent,
     member_name |-> Absent, user |-> NoUser]

DirectItem(id, name) == [BareItem EXCEPT !.id = id, !.name = name]

NotAnItem == [BareItem EXCEPT !.dict = FALSE]

\* the first truthy value of names, as the loop over name_keys finds it
FirstTruthy(names) ==
    LET hits == SelectSeq(names, LAMBDA v : Truthy(v))
    IN  IF hits = <<>> THEN Absent ELSE hits[1]

\* lines 172-195: the member of an item as a list, empty for None
pick_id_name(item) ==
    LET byUser    == FirstTruthy(<<item.user_name, item.name, item.full_name>>)
        byMember  == FirstTruthy(<<item.member_name, item.name, item.full_name>>)
        uid       == PyOr(Get(item.user.id), Get(item.user.user_id))
        uname     == PyOr(Get(item.user.name),
                          PyOr(Get(item.user.full_name), Get(item.user.email)))
    IN  IF ~item.dict THEN <<>>
        ELSE IF item.id.t # "absent" /\ (item.name.t # "absent" \/ item.full_name.t # "absent")
        THEN <<[id |-> PyStr(item.id), name |-> PyOr(Get(item.name), Get(item.full_name))]>>
        ELSE IF item.user_id.t # "absent" /\ byUser.t # "absent"
        THEN <<[id |-> PyStr(item.user_id), name |-> byUser]>>
        ELSE IF item.member_id.t # "absent" /\ byMember.t # "absent"
        THEN <<[id |-> PyStr(item.member_id), name |-> byMember]>>
        ELSE IF item.user.t = "obj" /\ Truthy(uid) /\ Truthy(uname)
        THEN <<[id |-> PyStr(uid), name |-> uname]>>
        ELSE <<>>

RECURSIVE PickAll(_)
\* line 200: the members of the items, in order
PickAll(items) ==
    IF items = <<>> THEN <<>> ELSE pick_id_name(items[1]) \o PickAll(Tail(items))

\* lines 157-200: the members read from the parsed payload
members_of_payload(payload) ==
    CASE payload.t = "none" -> <<>>
      [] payload.t = "list" -> PickAll(payload.items)
      [] payload.t = "dict" ->
           IF payload.key \in RosterKeys
           THEN PickAll(payload.items)
           ELSE PickAll(<<payload.obj>>)
      [] OTHER -> <<>>

get_team_members(resp) == members_of_payload(get_json(resp))

(***************************************************************************)
(* pick_least_loaded_assignee                                              *)
(***************************************************************************)
\* loads.get(aid, 0)
LoadOf(loads, aid) == IF aid \in DOMAIN loads THEN loads[aid] ELSE 0

Candidates(members, loads) ==
    [i \in 1..Len(members) |-> [load |-> LoadOf(loads, members[i].id), aid |-> members[i].id]]

\* the second component of the sort key: int(aid) if aid.isdigit() else aid
\* int < int and str < str are defined, int < str raises TypeError
IdLess(a, b) ==
    IF IsDigit(a) /\ IsDigit(b) THEN IntOf(a) < IntOf(b) ELSE StrLess(a, b)

\* tuple comparison of two sort keys
KeyLess(x, y) ==
    \/ x.load < y.load
    \/ x.load = y.load /\ IdLess(x.aid, y.aid)

\* list.sort compares some two candidates of equal load, one with an int key
\* and one with a str key: whatever their places, a sort that never compared
\* such a pair could not tell which comes first
SortRaises(c) ==
    \E i, j \in 1..Len(c) :
        /\ c[i].load = c[j].load
        /\ IsDigit(c[i].aid) /\ ~IsDigit(c[j].aid)

RECURSIVE InsertSorted(_, _)
\* x placed before the first element greater than it (stable)
InsertSorted(x, s) ==
    IF s = <<>> THEN <<x>>
    ELSE IF KeyLess(x, s[1]) THEN <<x>> \o s
    ELSE <<s[1]>> \o InsertSorted(x, Tail(s))

RECURSIVE SortCandidates(_)
SortCandidates(c) ==
    IF c = <<>> THEN <<>>
    ELSE InsertSorted(c[Len(c)], SortCandidates(SubSeq(c, 1, Len(c) - 1)))

PickNone == [kind |-> "none", id |-> <<>>]

PickRaise == [kind |-> "raise", id |-> <<>>]

\* lines 285-295: candidates, sort, first
pick_sorted_first(members, loads) ==
    LET c == Candidates(members, loads)
    IN  IF c = <<>> THEN PickNone
        ELSE IF SortRaises(c) THEN PickRaise
        ELSE [kind |-> "id", id |-> SortCandidates(c)[1].aid]

(***************************************************************************)
(* The log of remote calls                                                 *)
(***************************************************************************)
NoContent == [prioridade |-> <<>>, obs |-> <<>>]

\* a dict with string keys: its key set and the value under "error"
Dict(keys, error) == [t |-> "dict", keys |-> keys, error |-> error]

NoDict == [t |-> "none", keys |-> {}, error |-> ""]

\* a GET of endpoint ep (page: the page parameter, 0 without one) issued in
\* workflow state st; ok: _get_json returned a payload
GetCall(ep, page, st, resp) ==
    [m |-> "GET", ep |-> ep, page |-> page, st |-> st, code |-> resp.code,
     ok |-> get_json(resp).t # "none", res |-> NoDict,
     team_id |-> JNull, assignee_id |-> JNull, priority |-> JNull, content |-> NoContent]

(***************************************************************************)
(* Inputs: what the remote may answer                                      *)
(***************************************************************************)
\* longest roster the remote returns
MaxRoster == 2

\* most runs of equal records in one short listing page
MaxPageRuns == 2

\* longest run of equal records in one short listing page
MaxRunLen == 2

Id9 == <<57>>

Id10 == <<49, 48>>

IdA == <<97>>

IdB == <<98>>

\* the team the workflow is asked to assign to, and another one
TeamIds == {JInt(1)}

OtherTeam == JInt(2)

\* ids the remote uses for agents: JSON numbers and JSON strings
AgentIds == {JInt(9), JInt(10), JStr(IdA), JStr(IdB)}

AgentName == JStr(<<65>>)

RosterItems == {DirectItem(a, AgentName) : a \in AgentIds}

SeqsUpTo(S, n) == UNION {[1..k -> S] : k \in 0..n}

\* a failed GET: no response, a rejected status, a body that is no JSON
FailedGets == {Http(0, TextBody), Http(500, TextBody), Http(200, TextBody)}

RosterResponses ==
    FailedGets \cup {Http(200, RosterList(items)) : items \in SeqsUpTo(RosterItems, MaxRoster)}

\* the records a listing page may hold, for a request about team
ListingRecords(team) ==
    {Conv(team, a) : a \in AgentIds \cup {JNull, JStr(Id9)}}
        \cup {Conv(OtherTeam, JInt(9)), Conv(JNull, JInt(10)), NotADict}

\* run-length-encoded lists in normal form: no two neighbouring runs of one record
ShortLists(team) ==
    {l \in SeqsUpTo([rec : ListingRecords(team), n : 1..MaxRunLen], MaxPageRuns) :
        \A i \in 1..(Len(l) - 1) : l[i].rec # l[i + 1].rec}

\* pages that do not end the pagination: exactly per_page records, and more
FullPages(team) ==
    {Http(200, PageList(<<[rec |-> Conv(team, JInt(9)), n |-> DefaultPerPage]>>)),
     Http(200, PageList(<<[rec |-> Conv(OtherTeam, JInt(9)), n |-> DefaultPerPage + 1]>>))}

\* the listing as the remote serves it to pick_least_loaded_assignee: a last
\* page, after at most one full page
ListingInputs(team) ==
    LET last == FailedGets \cup {Http(200, PageList(l)) : l \in ShortLists(team)}
    IN  {<<r>> : r \in last} \cup {<<f, r>> : f \in FullPages(team), r \in last}

(***************************************************************************)
(* pick_least_loaded_assignee as the steps of its two remote reads         *)
(***************************************************************************)
PickIdle == [pc |-> "idle", payload |-> None, members |-> <<>>, loads |-> <<>>,
             ret |-> PickNone]

PickCalled == [PickIdle EXCEPT !.pc = "members"]

\* no overlapping invocations
TwoIdle == [base |-> <<>>, commits |-> 0, inv |-> <<>>]

\* lines 280-282: the roster, answered by one of responses; an empty roster
\* returns None at once
PickMembersFrom(responses) ==
    /\ pk.pc = "members"
    /\ \E resp \in responses :
          LET members == get_team_members(resp)
          IN  /\ calls' = Append(calls, GetCall("team_members", 0, pc, resp))
              /\ pk' = IF members = <<>>
                       THEN [pk EXCEPT !.pc = "returned", !.ret = PickNone]
                       ELSE [pk EXCEPT !.pc = "loads", !.members = members]
    /\ UNCHANGED <<response, two, conv0, pc, args, cfg, conv, current, entered, result, it>>

\* lines 284-295: the load map from the listing, served as one of listings,
\* then the sort
PickLoadsFrom(listings) ==
    /\ pk.pc = "loads"
    /\ \E resps \in listings :
          LET r     == iter_conversations(resps, args.team_id)
              loads == get_active_load_by_assignee(r.yielded)
              ret   == pick_sorted_first(pk.members, loads)
          IN  /\ calls' = calls \o [i \in 1..r.requests |->
                                       GetCall("conversations", i, pc, RespAt(resps, i))]
              /\ pk' = [pk EXCEPT !.pc = IF ret.kind = "raise" THEN "raised" ELSE "returned",
                                  !.loads = loads, !.ret = ret]
    /\ UNCHANGED <<response, two, conv0, pc, args, cfg, conv, current, entered, result, it>>

PickMembers == PickMembersFrom(RosterResponses)

PickLoads == PickLoadsFrom(ListingInputs(args.team_id))

NoArgs == [conversation_id |-> JNull, team_id |-> JNull, prioridade |-> JNull]

NoConv == [assignee |-> JNull, team |-> JNull, priority |-> JNull]

NoPerson == [id |-> JNull, name |-> JNull]

\* a returned dict: shape "status" (a simplified status), "fetch_failed" (the
\* record of a failed lookup), "raw" (the body of a POST) or "none" (nothing
\* returned); step and message_error are the keys the workflow adds
NoResult ==
    [shape |-> "none", conversation_id |-> JNull, status |-> JNull, priority |-> JNull,
     assignee |-> NoPerson, team |-> NoPerson, raw |-> NoDict,
     step |-> "", message_error |-> NoDict]

\* the endpoint has not answered
NoResponse == [status_code |-> 0, body |-> NoResult]

\* pick_least_loaded_assignee called on its own
InitPick ==
    /\ pc = "Idle"
    /\ args \in {[NoArgs EXCEPT !.team_id = t] : t \in TeamIds}
    /\ cfg = {}
    /\ conv = NoConv
    /\ conv0 = NoConv
    /\ two = TwoIdle
    /\ response = NoResponse
    /\ current = NoResult
    /\ calls = <<>>
    /\ entered = <<>>
    /\ result = NoResult
    /\ pk = PickCalled
    /\ it = IterStart

NextPick == PickMembers \/ PickLoads

SpecPick == InitPick /\ [][NextPick]_vars

(***************************************************************************)
(* _extract_list_like applied, and applied again to what it returned       *)
(***************************************************************************)
\* payloads: None, lists, mappings with and without a list under a preferred
\* key, {}, a scalar
ExtractPayloads(team) ==
    {None, EmptyDict, ScalarBody(JInt(5))}
    \cup {PageList(l) : l \in ShortLists(team)}
    \cup {PageDict(k, l, obj) :
            k \in {"data", "conversations", "records", "list", "meta", ""},
            l \in {<<>>, <<[rec |-> Conv(team, JInt(9)), n |-> 2]>>,
                   <<[rec |-> NotADict, n |-> 1]>>},
            obj \in {Conv(JNull, JNull), Conv(team, JInt(10))}}

\* the call on the payload
ExtractCall ==
    /\ pk.pc = "extract"
    /\ \E prefer_keys \in {DefaultPreferKeys, IterPreferKeys} :
          pk' = [pk EXCEPT !.pc = "extracted",
                           !.ret = extract_list_like(pk.payload, prefer_keys)]
    /\ UNCHANGED <<response, two, conv0, pc, args, cfg, conv, current, calls, entered, result, it>>

\* the call on the list the first call returned
ExtractAgain ==
    /\ pk.pc = "extracted"
    /\ \E prefer_keys \in {DefaultPreferKeys, IterPreferKeys} :
          pk' = [pk EXCEPT !.pc = "reextracted",
                           !.ret = extract_list_like(PageList(pk.ret), prefer_keys)]
    /\ UNCHANGED <<response, two, conv0, pc, args, cfg, conv, current, calls, entered, result, it>>

InitExtract ==
    /\ pc = "Idle"
    /\ args \in {[NoArgs EXCEPT !.team_id = t] : t \in TeamIds}
    /\ cfg = {}
    /\ conv = NoConv
    /\ conv0 = NoConv
    /\ two = TwoIdle
    /\ response = NoResponse
    /\ current = NoResult
    /\ calls = <<>>
    /\ entered = <<>>
    /\ result = NoResult
    /\ pk \in {[PickIdle EXCEPT !.pc = "extract", !.payload = p] :
                  p \in ExtractPayloads(args.team_id)}
    /\ it = IterStart

NextExtract == ExtractCall \/ ExtractAgain

SpecExtract == InitExtract /\ [][NextExtract]_vars

(***************************************************************************)
(* _iter_conversations consumed page by page                               *)
(***************************************************************************)
\* what the remote may answer to one page request
IterResponses(team) ==
    FailedGets \cup FullPages(team) \cup
    {Http(200, PageList(<<>>)),
     Http(200, PageList(<<[rec |-> Conv(team, JInt(10)), n |-> 1]>>)),
     Http(200, PageList(<<[rec |-> Conv(team, JStr(IdA)), n |-> DefaultPerPage - 1]>>)),
     Http(200, PageList(<<[rec |-> Conv(OtherTeam, JInt(9)), n |-> 1],
                          [rec |-> Conv(team, JNull), n |-> 1]>>)),
     Http(200, PageList(<<[rec |-> NotADict, n |-> 1],
                          [rec |-> Conv(JStr(PyStr(team)), JInt(9)), n |-> 1],
                          [rec |-> Conv(JNull, JInt(10)), n |-> 1]>>)),
     Http(200, PageDict("payload", <<[rec |-> Conv(team, JInt(9)), n |-> 2]>>,
                        Conv(JNull, JNull))),
     Http(200, PageDict("payload", <<>>, Conv(JNull, JNull))),
     Http(200, PageDict("records", <<[rec |-> Conv(team, JInt(9)), n |-> 2]>>,
                        Conv(JNull, JNull))),
     Http(200, PageDict("", <<>>, Conv(team, JInt(10))))}

\* lines 225-253: the consumer asks for the next record and the loop requests a page
IterFetch ==
    /\ IterRunning(it, DefaultMaxPages)
    /\ \E resp \in IterResponses(args.team_id) :
          it' = IterPage(it, resp, args.team_id, DefaultPerPage)
    /\ UNCHANGED <<response, two, conv0, pc, args, cfg, conv, current, calls, entered, result, pk>>

InitIter ==
    /\ pc = "Idle"
    /\ args \in {[NoArgs EXCEPT !.team_id = t] : t \in TeamIds}
    /\ cfg = {}
    /\ conv = NoConv
    /\ conv0 = NoConv
    /\ two = TwoIdle
    /\ response = NoResponse
    /\ current = NoResult
    /\ calls = <<>>
    /\ entered = <<>>
    /\ result = NoResult
    /\ pk = PickIdle
    /\ it = IterStart

NextIter == IterFetch

SpecIter == InitIter /\ [][NextIter]_vars

\* get_active_load_by_assignee consumes the generator to its end, and every
\* request returns within its timeout
SpecIterFair == SpecIter /\ WF_vars(IterFetch)

(***************************************************************************)
(* get_team_members called on its own                                      *)
(***************************************************************************)
\* a user under the shapes the remote may list it in, an item without a name,
\* an item whose id is null, an element that is no mapping
RosterShapeItems ==
    {DirectItem(JInt(9), AgentName),
     DirectItem(JStr(Id9), AgentName),
     [BareItem EXCEPT !.id = JInt(10), !.full_name = AgentName],
     [BareItem EXCEPT !.user_id = JInt(9), !.user_name = AgentName],
     [BareItem EXCEPT !.user_id = JInt(10)],
     [BareItem EXCEPT !.member_id = JInt(10), !.name = AgentName],
     [BareItem EXCEPT !.user = [NoUser EXCEPT !.t = "obj", !.id = JInt(9),
                                              !.email = AgentName]],
     DirectItem(JNull, AgentName),
     NotAnItem}

RosterShapes ==
    FailedGets
    \cup {Http(200, RosterList(items)) : items \in SeqsUpTo(RosterShapeItems, MaxRoster)}
    \cup {Http(200, RosterDict("members", <<i, j>>, BareItem)) :
              i \in {DirectItem(JInt(9), AgentName)}, j \in RosterShapeItems}
    \cup {Http(200, RosterDict("", <<>>, i)) : i \in RosterShapeItems}
    \cup {Http(200, RosterDict("payload", <<DirectItem(JInt(9), AgentName)>>, BareItem)),
          Http(200, RosterScalar)}

\* lines 155-156: the roster requested, its parsed body kept in payload
RosterFetch ==
    /\ pk.pc = "roster"
    /\ \E resp \in RosterShapes :
          /\ calls' = Append(calls, GetCall("team_members", 0, pc, resp))
          /\ pk' = [pk EXCEPT !.pc = "parsing", !.payload = get_json(resp)]
    /\ UNCHANGED <<response, two, conv0, pc, args, cfg, conv, current, entered, result, it>>

\* lines 157-200: the members read from payload and returned
RosterParse ==
    /\ pk.pc = "parsing"
    /\ pk' = [pk EXCEPT !.pc = "fetched", !.members = members_of_payload(pk.payload)]
    /\ UNCHANGED <<response, two, conv0, pc, args, cfg, conv, current, calls, entered, result, it>>

InitRoster ==
    /\ pc = "Idle"
    /\ args \in {[NoArgs EXCEPT !.team_id = t] : t \in TeamIds}
    /\ cfg = {}
    /\ conv = NoConv
    /\ conv0 = NoConv
    /\ two = TwoIdle
    /\ response = NoResponse
    /\ current = NoResult
    /\ calls = <<>>
    /\ entered = <<>>
    /\ result = NoResult
    /\ pk = [PickIdle EXCEPT !.pc = "roster"]
    /\ it = IterStart

NextRoster == RosterFetch \/ RosterParse

SpecRoster == InitRoster /\ [][NextRoster]_vars

(***************************************************************************)
(* get_active_load_by_assignee called on its own                           *)
(***************************************************************************)
\* lines 262-268: the generator consumed to its end, the counts returned
LoadCount ==
    /\ pk.pc = "counting"
    /\ \E resps \in ListingInputs(args.team_id) :
          LET r == iter_conversations(resps, args.team_id)
          IN  /\ it' = r
              /\ calls' = calls \o [i \in 1..r.requests |->
                                       GetCall("conversations", i, pc, RespAt(resps, i))]
              /\ pk' = [pk EXCEPT !.pc = "counted",
                                  !.loads = get_active_load_by_assignee(r.yielded)]
    /\ UNCHANGED <<response, two, conv0, pc, args, cfg, conv, current, entered, result>>

InitLoad ==
    /\ pc = "Idle"
    /\ args \in {[NoArgs EXCEPT !.team_id = t] : t \in TeamIds}
    /\ cfg = {}
    /\ conv = NoConv
    /\ conv0 = NoConv
    /\ two = TwoIdle
    /\ response = NoResponse
    /\ current = NoResult
    /\ calls = <<>>
    /\ entered = <<>>
    /\ result = NoResult
    /\ pk = [PickIdle EXCEPT !.pc = "counting"]
    /\ it = IterStart

NextLoad == LoadCount

SpecLoad == InitLoad /\ [][NextLoad]_vars

(***************************************************************************)
(* Claims about pick_least_loaded_assignee                                 *)
(***************************************************************************)
PickEnded == pk.pc \in {"returned", "raised"}

MemberIds(members) == {members[i].id : i \in 1..Len(members)}

Reverse(q) == [i \in 1..Len(q) |-> q[Len(q) + 1 - i]]

\* aid is a least-loaded member and, among the members of its load and of its
\* kind of identifier (numeric, or not), the one with the smallest identifier
IsLeastLoaded(aid, members, loads) ==
    /\ aid \in MemberIds(members)
    /\ \A i \in 1..Len(members) :
          LET m == members[i].id
          IN  /\ LoadOf(loads, aid) <= LoadOf(loads, m)
              /\ (LoadOf(loads, m) = LoadOf(loads, aid) /\ IsDigit(m) /\ IsDigit(aid))
                    => IntOf(aid) <= IntOf(m)
              /\ (LoadOf(loads, m) = LoadOf(loads, aid) /\ ~IsDigit(m) /\ ~IsDigit(aid))
                    => ~StrLess(m, aid)

\* C6: for every non-empty roster and every load map (absent members count 0),
\* the selection returns a member of minimum load and, among those, the one
\* with the smallest identifier (numeric identifiers by value, the others
\* lexicographically), the same whatever the order of the roster.
C6_LeastLoadedReturned ==
    (PickEnded /\ pk.members # <<>>) =>
        /\ pk.pc = "returned"
        /\ pk.ret.kind = "id"
        /\ IsLeastLoaded(pk.ret.id, pk.members, pk.loads)
        /\ pick_sorted_first(Reverse(pk.members), pk.loads) = pk.ret

\* C7: the selection returns None exactly when the roster is empty, then
\* without requesting the listing; on every non-empty roster it returns the
\* id of a roster member and does not raise; a roster of one returns that one.
C7_NoneIffEmptyRoster ==
    PickEnded =>
        /\ pk.members = <<>> =>
              /\ pk.pc = "returned" /\ pk.ret.kind = "none"
              /\ \A i \in 1..Len(calls) : calls[i].ep # "conversations"
        /\ pk.members # <<>> =>
              /\ pk.pc = "returned" /\ pk.ret.kind = "id"
              /\ pk.ret.id \in MemberIds(pk.members)
        /\ Len(pk.members) = 1 => pk.ret.id = pk.members[1].id

\* a roster of two equally loaded members, one id numeric and one not, in
\* either order: the sort raised
C6_MixedTieRaised ==
    /\ pk.pc = "raised"
    /\ Len(pk.members) = 2
    /\ LoadOf(pk.loads, pk.members[1].id) = LoadOf(pk.loads, pk.members[2].id)
    /\ IsDigit(pk.members[1].id) # IsDigit(pk.members[2].id)

\* a non-empty roster and no id returned: the selection raised
C7_RaisedOnRoster ==
    /\ pk.pc = "raised"
    /\ pk.members # <<>>
    /\ pk.ret.kind = "raise"
    /\ \E i \in 1..Len(calls) : calls[i].ep = "conversations"

\* what remains of C6 and C7 when the sort does not raise
PickHoldsUnlessRaised ==
    pk.pc = "returned" =>
        /\ pk.members = <<>> => pk.ret.kind = "none"
        /\ pk.members # <<>> =>
              /\ pk.ret.kind = "id"
              /\ IsLeastLoaded(pk.ret.id, pk.members, pk.loads)
              /\ pick_sorted_first(Reverse(pk.members), pk.loads) = pk.ret

(***************************************************************************)
(* Claims about _iter_conversations                                        *)
(***************************************************************************)
\* the loop goes on to request the page after the it.requests pages requested
NextPageRequested == IterRunning(it, DefaultMaxPages)

\* C9 as claimed: at most 200 pages are requested, and after page p the next
\* page is requested if and only if page p returned exactly the page size of
\* records and p is below the cap.
C9_NextPageIffExactlyFull ==
    /\ it.requests <= DefaultMaxPages
    /\ it.requests >= 1 =>
          (NextPageRequested <=>
              (it.lastlen = DefaultPerPage /\ it.requests < DefaultMaxPages))

C9_PaginationRule ==
    /\ it.requests <= DefaultMaxPages
    /\ it.page = (IF it.done THEN it.requests ELSE it.requests + 1)
    /\ it.requests >= 1 =>
          (NextPageRequested <=>
              (it.lastlen >= DefaultPerPage /\ it.requests < DefaultMaxPages))

\* C9, amended: the pagination always terminates and requests at most 200
\* pages, numbered 1, 2, ... in order; after page p the next page is requested
\* if and only if page p returned at least the page size of records (a page
\* that failed or is empty counts as none) and p is below the cap.
C9_PaginationTerminates == []C9_PaginationRule /\ <>[](~NextPageRequested)

\* the cap boundary: page 200 is full and no page 201 is requested
C9_CapReached ==
    /\ it.requests = DefaultMaxPages
    /\ it.lastlen >= DefaultPerPage
    /\ ~NextPageRequested

(***************************************************************************)
(* _simplify_conversation_payload and get_conversation_simple              *)
(***************************************************************************)
\* a nested object of a conversation payload (an assignee, a team), or None
NoObj == [t |-> "null", id |-> JNull, name |-> JNull, available_name |-> JNull,
          email |-> JNull]

Obj(id, name) == [t |-> "obj", id |-> id, name |-> name, available_name |-> JNull,
                  email |-> JNull]

\* d.get("name") or d.get("available_name") or d.get("email")
pick_name(d) == PyOr(d.name, PyOr(d.available_name, d.email))

\* int(conv_id) if str(conv_id).isdigit() else conv_id
ConvIdOut(conv_id) ==
    IF IsDigit(PyStr(conv_id)) THEN JInt(IntOf(PyStr(conv_id))) ELSE conv_id

simplify_conversation_payload(payload, conversation_id_hint) ==
    LET conv_id == PyOr(payload.id, conversation_id_hint)
        assignee_meta == IF payload.hasmeta THEN payload.meta_assignee ELSE NoObj
        team_meta     == IF payload.hasmeta THEN payload.meta_team ELSE NoObj
        \* assignee: meta.assignee, then the top-level object, then the scalar
        a_id1   == IF assignee_meta.t = "obj" THEN assignee_meta.id ELSE JNull
        a_name1 == IF assignee_meta.t = "obj" THEN pick_name(assignee_meta) ELSE JNull
        a_top   == a_id1.t = "null" /\ payload.assignee.t = "obj"
        a_id2   == IF a_top THEN payload.assignee.id ELSE a_id1
        a_name2 == IF a_top THEN PyOr(a_name1, pick_name(payload.assignee)) ELSE a_name1
        a_id3   == IF a_id2.t = "null" /\ payload.assignee_id.t # "null"
                   THEN payload.assignee_id ELSE a_id2
        a_name3 == IF a_name2.t = "null" /\ a_id3.t # "null"
                   THEN JStr(PyStr(a_id3)) ELSE a_name2
        \* team: the same three shapes
        t_id1   == IF team_meta.t = "obj" THEN team_meta.id ELSE JNull
        t_name1 == IF team_meta.t = "obj" THEN team_meta.name ELSE JNull
        t_top   == t_id1.t = "null" /\ payload.team.t = "obj"
        t_id2   == IF t_top THEN payload.team.id ELSE t_id1
        t_name2 == IF t_top THEN PyOr(t_name1, payload.team.name) ELSE t_name1
        t_id3   == IF t_id2.t = "null" /\ payload.team_id.t # "null"
                   THEN payload.team_id ELSE t_id2
        t_name3 == IF t_name2.t = "null" /\ t_id3.t # "null"
                   THEN JStr(PyStr(t_id3)) ELSE t_name2
    IN  [NoResult EXCEPT !.shape = "status",
                         !.conversation_id = ConvIdOut(conv_id),
                         !.status = payload.status,
                         !.priority = payload.priority,
                         !.assignee = [id |-> a_id3, name |-> a_name3],
                         !.team = [id |-> t_id3, name |-> t_name3]]

\* {"error": "fetch_failed", "detail": ..., "conversation_id": conversation_id}
FetchFailed(conversation_id) ==
    [NoResult EXCEPT !.shape = "fetch_failed", !.conversation_id = conversation_id]

\* line 315: payload.get on a payload that is no mapping raises AttributeError,
\* which nothing catches
SimplifyRaised == [NoResult EXCEPT !.shape = "raised"]

\* lines 395-397: the record returned for the parsed payload
simple_of_payload(payload, conversation_id) ==
    IF PayloadFalsy(payload) THEN FetchFailed(conversation_id)
    ELSE IF payload.t # "dict" THEN SimplifyRaised
    ELSE simplify_conversation_payload(payload, conversation_id)

get_conversation_simple(resp, conversation_id) ==
    simple_of_payload(get_json(resp), conversation_id)

\* the top-level keys of a returned dict
Keys(r) ==
    (CASE r.shape = "status" -> {"conversation_id", "status", "priority", "assignee", "team"}
       [] r.shape = "fetch_failed" -> {"error", "detail", "conversation_id"}
       [] r.shape = "raw" -> r.raw.keys
       [] OTHER -> {})
    \cup (IF r.step # "" THEN {"step"} ELSE {})
    \cup (IF r.message_error.t # "none" THEN {"message_error"} ELSE {})

(***************************************************************************)
(* The remote conversation                                                 *)
(***************************************************************************)
StrOpen == <<111, 112, 101, 110>>

TeamName == JStr(<<84>>)

\* the body the remote serves for GET conversations/{id}: the conversation
\* with its assignee and team nested under meta
RemotePayload(id, c) ==
    [t |-> "dict", id |-> id, status |-> JStr(StrOpen), priority |-> c.priority,
     hasmeta |-> TRUE,
     meta_assignee |-> IF c.assignee.t = "null" THEN NoObj ELSE Obj(c.assignee, AgentName),
     meta_team |-> IF c.team.t = "null" THEN NoObj ELSE Obj(c.team, TeamName),
     assignee |-> NoObj, team |-> NoObj, assignee_id |-> JNull, team_id |-> JNull]

\* what the remote may answer to GET conversations/{id}
ConvGetResponses(id, c) ==
    {Http(0, TextBody), Http(404, TextBody), Http(200, RemotePayload(id, c))}

\* what the remote may answer to a POST: no response, a success, rejections
\* with and without an "error" key, a rejection whose body is no JSON
PostResponses ==
    {Http(0, TextBody),
     Http(200, Dict({"id"}, "")),
     Http(400, Dict({"error"}, "remote")),
     Http(404, Dict({"message"}, "")),
     Http(503, TextBody)}

\* the remote applies the mutation of a POST it answers with a 2xx status
Committed(resp) == resp.code >= 200 /\ resp.code < 300

\* the id the remote stores for the assignee_id it was sent
RemoteId(chosen) == IF IsDigit(chosen) THEN JInt(IntOf(chosen)) ELSE JStr(chosen)

(***************************************************************************)
(* _post_json                                                              *)
(***************************************************************************)
\* _json_or_text: the JSON body, or {"status_code", "text"}
json_or_text(resp) ==
    IF resp.body.t = "text" THEN Dict({"status_code", "text"}, "") ELSE resp.body

\* (status_code, json_or_text); (0, {"error": "network", ...}) on a RequestException
post_json(resp) ==
    IF resp.code = 0
    THEN [status_code |-> 0, res |-> Dict({"error", "detail"}, "network")]
    ELSE [status_code |-> resp.code, res |-> json_or_text(resp)]

PostCall(ep, st, resp, team_id, assignee_id, priority, content) ==
    [m |-> "POST", ep |-> ep, page |-> 0, st |-> st, code |-> post_json(resp).status_code,
     ok |-> resp.code # 0, res |-> post_json(resp).res,
     team_id |-> team_id, assignee_id |-> assignee_id, priority |-> priority,
     content |-> content]

(***************************************************************************)
(* Priorities and configuration                                            *)
(***************************************************************************)
StrLow == <<108, 111, 119>>

StrMedium == <<109, 101, 100, 105, 117, 109>>

StrHigh == <<104, 105, 103, 104>>

StrUrgent == <<117, 114, 103, 101, 110, 116>>

\* "Urgent", "High", "vip"
StrUrgentCap == <<85, 114, 103, 101, 110, 116>>

StrHighCap == <<72, 105, 103, 104>>

StrVip == <<118, 105, 112>>

PRIORITY_MAP ==
    [k \in {JInt(0), JInt(1), JInt(2), JInt(3),
            JStr(StrLow), JStr(StrMedium), JStr(StrHigh), JStr(StrUrgent)} |->
        CASE k = JInt(0) \/ k = JStr(StrLow)    -> StrLow
          [] k = JInt(1) \/ k = JStr(StrMedium) -> StrMedium
          [] k = JInt(2) \/ k = JStr(StrHigh)   -> StrHigh
          [] OTHER                              -> StrUrgent]

\* PRIORITY_MAP.get(prioridade, prioridade)
norm_priority(prioridade) ==
    IF prioridade \in DOMAIN PRIORITY_MAP THEN JStr(PRIORITY_MAP[prioridade]) ELSE prioridade

\* str(norm_priority).lower()
norm_priority_str(prioridade) == Lower(PyStr(norm_priority(prioridade)))

\* {str(x).lower() for x in CONFIG["auto_assign_by_priority"]}
AUTO_ASSIGN_PRIOS(config) == {Lower(PyStr(x)) : x \in config}

\* auto_assign_by_priority as configured: the default, another list, none
Configs == {{JStr(StrUrgent)}, {JStr(StrHighCap), JStr(StrUrgent)}, {}}

\* the prioridade argument: the codes, a code that is none, the names, a name
\* in another case, a name that is none
Prioridades ==
    {JInt(0), JInt(1), JInt(2), JInt(3), JInt(7),
     JStr(StrLow), JStr(StrMedium), JStr(StrHigh), JStr(StrUrgent),
     JStr(StrUrgentCap), JStr(StrVip)}

\* the observacoes argument: None, blank, a text with a leading blank
Observacoes == {JNull, JStr(<<32>>), JStr(<<32, 120>>)}

RECURSIVE LStrip(_)
LStrip(q) == IF q # <<>> /\ q[1] = 32 THEN LStrip(Tail(q)) ELSE q

\* str.strip(), on blanks
Strip(q) == Reverse(LStrip(Reverse(LStrip(q))))

\* _compose_private_message: the priority line and the notes line (the reason
\* line carries motivo as it is)
compose_private_message(prioridade, observacoes) ==
    LET obs_str == IF observacoes.t # "null" THEN Strip(PyStr(observacoes)) ELSE <<45>>
    IN  [prioridade |-> prioridade, obs |-> IF obs_str = <<>> THEN <<45>> ELSE obs_str]

(***************************************************************************)
(* get_conversation_simple called on its own                               *)
(***************************************************************************)
ConversationId == JInt(5)

OtherName == JStr(<<66>>)

\* conversation bodies in the shapes the remote may serve: the assignee and
\* the team nested under meta, as top-level objects, as flat scalars, with
\* and without their id and name
LookupPayloads ==
    {[t |-> "dict", id |-> id, status |-> JStr(StrOpen), priority |-> JNull,
      hasmeta |-> ma.t = "obj" \/ mt.t = "obj",
      meta_assignee |-> ma, meta_team |-> mt, assignee |-> ta, team |-> tt,
      assignee_id |-> fa, team_id |-> ft] :
        id \in {JNull, ConversationId},
        ma \in {NoObj, Obj(JInt(9), AgentName), Obj(JNull, AgentName), Obj(JInt(9), JNull)},
        ta \in {NoObj, Obj(JInt(10), OtherName), Obj(JInt(10), JNull)},
        fa \in {JNull, JInt(7)},
        mt \in {NoObj, Obj(JInt(1), TeamName), Obj(JNull, TeamName)},
        tt \in {NoObj, Obj(JInt(2), OtherName)},
        ft \in {JNull, JInt(3)}}

\* what the remote may answer to GET conversations/{id}, bodies that are no
\* conversation included
LookupResponses ==
    {Http(0, TextBody), Http(404, TextBody), Http(200, TextBody),
     Http(200, EmptyDict), Http(200, RosterList(<<>>)),
     Http(200, RosterList(<<BareItem>>)),
     Http(200, ScalarBody(JInt(0))), Http(200, ScalarBody(JInt(5)))}
    \cup {Http(200, body) : body \in LookupPayloads}

\* lines 393-394: the conversation requested, its parsed body kept in payload
LookupFetch ==
    /\ pk.pc = "lookup"
    /\ \E resp \in LookupResponses :
          /\ calls' = Append(calls, GetCall("conversation", 0, pc, resp))
          /\ pk' = [pk EXCEPT !.pc = "simplifying", !.payload = get_json(resp)]
    /\ UNCHANGED <<response, two, conv0, pc, args, cfg, conv, current, entered, result, it>>

\* lines 395-397: the record returned
LookupReturn ==
    /\ pk.pc = "simplifying"
    /\ result' = simple_of_payload(pk.payload, args.conversation_id)
    /\ pk' = [pk EXCEPT !.pc = "looked"]
    /\ UNCHANGED <<response, two, conv0, pc, args, cfg, conv, current, calls, entered, it>>

InitLookup ==
    /\ pc = "Idle"
    /\ args = [NoArgs EXCEPT !.conversation_id = ConversationId]
    /\ cfg = {}
    /\ conv = NoConv
    /\ conv0 = NoConv
    /\ two = TwoIdle
    /\ response = NoResponse
    /\ current = NoResult
    /\ calls = <<>>
    /\ entered = <<>>
    /\ result = NoResult
    /\ pk = [PickIdle EXCEPT !.pc = "lookup"]
    /\ it = IterStart

NextLookup == LookupFetch \/ LookupReturn

SpecLookup == InitLookup /\ [][NextLookup]_vars

(***************************************************************************)
(* auto_assign_team_then_agent                                             *)
(***************************************************************************)

\* the assignee of the conversation when the workflow is invoked: none, the
\* id 0, an agent
InitialAssignees == {JNull, JInt(0), JInt(9)}

\* the no-op test taking a failed lookup for an assigned conversation
AlreadyAssignedOrUnknown(cur) == cur.shape # "status" \/ Truthy(cur.assignee.id)

\* current.get("assignee", {}).get("id"), as a condition
AlreadyAssigned(cur) == cur.shape = "status" /\ Truthy(cur.assignee.id)

\* status_code == 0 or status_code >= 400
\* the abort test with status 400 let through
AbortsAbove400(status_code) == status_code = 0 \/ status_code > 400

Aborts(status_code) == status_code = 0 \/ status_code >= 400

\* res.update({"step": step})
Tagged(res, step) == [NoResult EXCEPT !.shape = "raw", !.raw = res, !.step = step]

\* the trigger test without the lower-casing
AutoAssignCaseSensitive(prioridade, prios) == PyStr(norm_priority(prioridade)) \in prios

\* the selection taken for empty whatever it returned
NotChosenAlways(ret) == TRUE

\* the selection taken for an agent whatever it returned
NotChosenNever(ret) == FALSE

\* norm_priority_str in AUTO_ASSIGN_PRIOS
AutoAssign(prioridade, prios) == norm_priority_str(prioridade) \in prios

\* not chosen
NotChosen(ret) == ret.kind = "none" \/ ret.id = <<>>

Init ==
    /\ pc = "CheckAssigned"
    /\ args \in [conversation_id : {ConversationId}, team_id : TeamIds,
                 prioridade : Prioridades]
    /\ cfg \in {AUTO_ASSIGN_PRIOS(c) : c \in Configs}
    /\ conv \in {[NoConv EXCEPT !.assignee = a] : a \in InitialAssignees}
    /\ conv0 = conv
    /\ two = TwoIdle
    /\ response = NoResponse
    /\ current = NoResult
    /\ calls = <<>>
    /\ entered = <<"CheckAssigned">>
    /\ result = NoResult
    /\ pk = PickIdle
    /\ it = IterStart

\* lines 418-422
CheckAssigned ==
    /\ pc = "CheckAssigned"
    /\ \E resp \in ConvGetResponses(args.conversation_id, conv) :
          LET cur == get_conversation_simple(resp, args.conversation_id)
          IN  /\ calls' = Append(calls, GetCall("conversation", 0, pc, resp))
              /\ current' = cur
              /\ IF AlreadyAssigned(cur)
                 THEN /\ result' = [cur EXCEPT !.step = "already_assigned"]
                      /\ pc' = "Done"
                      /\ entered' = entered
                 ELSE /\ result' = result
                      /\ pc' = "AssignTeam"
                      /\ entered' = Append(entered, "AssignTeam")
    /\ UNCHANGED <<response, two, conv0, args, cfg, conv, pk, it>>

\* lines 426-437
AssignTeam ==
    /\ pc = "AssignTeam"
    /\ \E resp \in PostResponses :
          LET r == post_json(resp)
          IN  /\ calls' = Append(calls, PostCall("assignments", pc, resp, args.team_id,
                                                 JNull, JNull, NoContent))
              /\ conv' = IF Committed(resp) THEN [conv EXCEPT !.team = args.team_id] ELSE conv
              /\ IF Aborts(r.status_code)
                 THEN /\ result' = Tagged(r.res, "assign_team")
                      /\ pc' = "Done"
                      /\ entered' = entered
                 ELSE /\ result' = result
                      /\ pc' = "SetPriority"
                      /\ entered' = Append(entered, "SetPriority")
    /\ UNCHANGED <<response, two, conv0, args, cfg, current, pk, it>>

\* lines 439-456
SetPriority ==
    /\ pc = "SetPriority"
    /\ \E resp \in PostResponses :
          LET r == post_json(resp)
          IN  /\ calls' = Append(calls, PostCall("toggle_priority", pc, resp, JNull, JNull,
                                                 norm_priority(args.prioridade), NoContent))
              /\ conv' = IF Committed(resp)
                         THEN [conv EXCEPT !.priority = norm_priority(args.prioridade)]
                         ELSE conv
              /\ IF Aborts(r.status_code)
                 THEN /\ result' = Tagged(r.res, "priority")
                      /\ pc' = "Done"
                      /\ entered' = entered
                      /\ pk' = pk
                 ELSE IF AutoAssign(args.prioridade, cfg)
                 THEN /\ result' = result
                      /\ pc' = "MaybeAssignAgent"
                      /\ entered' = Append(entered, "MaybeAssignAgent")
                      /\ pk' = PickCalled
                 ELSE /\ result' = result
                      /\ pc' = "PostPrivateNote"
                      /\ entered' = Append(entered, "PostPrivateNote")
                      /\ pk' = pk
    /\ UNCHANGED <<response, two, conv0, args, cfg, current, it>>

\* the rosters the remote serves to the workflow: none (a failed GET), an
\* empty one, one agent, two numeric ids in either order, a numeric and a
\* non-numeric id
WorkflowRosters ==
    LET item(a) == DirectItem(a, AgentName)
    IN  {Http(0, TextBody), Http(500, TextBody),
         Http(200, RosterList(<<>>)),
         Http(200, RosterList(<<item(JInt(10))>>)),
         Http(200, RosterList(<<item(JInt(10)), item(JInt(9))>>)),
         Http(200, RosterList(<<item(JInt(9)), item(JStr(IdA))>>))}

\* the listings the remote serves to the workflow: a failed first page, an
\* empty one, short pages, a full page followed by a failed or a short page
WorkflowListings(team) ==
    LET full   == Http(200, PageList(<<[rec |-> Conv(team, JInt(9)), n |-> DefaultPerPage]>>))
        short9 == Http(200, PageList(<<[rec |-> Conv(team, JInt(9)), n |-> 1]>>))
        shortA == Http(200, PageList(<<[rec |-> Conv(team, JStr(IdA)), n |-> 1],
                                       [rec |-> Conv(team, JInt(10)), n |-> 2]>>))
    IN  {<<Http(0, TextBody)>>, <<Http(200, PageList(<<>>))>>, <<short9>>, <<shortA>>,
         <<full, Http(500, TextBody)>>, <<full, shortA>>}

\* line 456: pick_least_loaded_assignee called by the workflow
WorkflowPickMembers == pc = "MaybeAssignAgent" /\ PickMembersFrom(WorkflowRosters)

WorkflowPickLoads ==
    pc = "MaybeAssignAgent" /\ PickLoadsFrom(WorkflowListings(args.team_id))

\* AssignAgent with a rollback: a rejected agent assignment is followed by a
\* POST that puts the conversation's team back
AssignAgentRollingBack ==
    /\ pc = "MaybeAssignAgent"
    /\ pk.pc = "returned"
    /\ pk' = [PickIdle EXCEPT !.ret = pk.ret]
    /\ IF NotChosen(pk.ret)
       THEN /\ pc' = "PostPrivateNote"
            /\ entered' = Append(entered, "PostPrivateNote")
            /\ UNCHANGED <<calls, conv, result>>
       ELSE \E resp \in PostResponses :
               LET r    == post_json(resp)
                   post == PostCall("assignments", pc, resp, args.team_id,
                                    JStr(pk.ret.id), JNull, NoContent)
                   undo == PostCall("assignments", pc, Http(200, Dict({"id"}, "")),
                                    conv0.team, JNull, JNull, NoContent)
               IN  IF Aborts(r.status_code)
                   THEN /\ calls' = calls \o <<post, undo>>
                        /\ conv' = [conv EXCEPT !.team = conv0.team]
                        /\ result' = Tagged(r.res, "assign_agent")
                        /\ pc' = "Done"
                        /\ entered' = entered
                   ELSE /\ calls' = Append(calls, post)
                        /\ conv' = [conv EXCEPT !.team = args.team_id,
                                                !.assignee = RemoteId(pk.ret.id)]
                        /\ result' = result
                        /\ pc' = "PostPrivateNote"
                        /\ entered' = Append(entered, "PostPrivateNote")
    /\ UNCHANGED <<response, two, conv0, args, cfg, current, it>>

\* lines 456-471, once pick_least_loaded_assignee has returned
AssignAgent ==
    /\ pc = "MaybeAssignAgent"
    /\ pk.pc = "returned"
    /\ pk' = [PickIdle EXCEPT !.ret = pk.ret]
    /\ IF NotChosen(pk.ret)
       THEN /\ pc' = "PostPrivateNote"
            /\ entered' = Append(entered, "PostPrivateNote")
            /\ UNCHANGED <<calls, conv, result>>
       ELSE \E resp \in PostResponses :
               LET r == post_json(resp)
               IN  /\ calls' = Append(calls, PostCall("assignments", pc, resp, args.team_id,
                                                      JStr(pk.ret.id), JNull, NoContent))
                   /\ conv' = IF Committed(resp)
                              THEN [conv EXCEPT !.team = args.team_id,
                                                !.assignee = RemoteId(pk.ret.id)]
                              ELSE conv
                   /\ IF Aborts(r.status_code)
                      THEN /\ result' = Tagged(r.res, "assign_agent")
                           /\ pc' = "Done"
                           /\ entered' = entered
                      ELSE /\ result' = result
                           /\ pc' = "PostPrivateNote"
                           /\ entered' = Append(entered, "PostPrivateNote")
    /\ UNCHANGED <<response, two, conv0, args, cfg, current, it>>

\* line 456, when the sort of pick_least_loaded_assignee raised TypeError: no
\* handler catches it and the workflow ends with the exception
PickRaised ==
    /\ pc = "MaybeAssignAgent"
    /\ pk.pc = "raised"
    /\ pc' = "Raised"
    /\ pk' = [PickIdle EXCEPT !.ret = pk.ret]
    /\ UNCHANGED <<response, two, conv0, args, cfg, conv, current, calls, entered, result, it>>

\* lines 473-487; observacoes is read here only
PostPrivateNote ==
    /\ pc = "PostPrivateNote"
    /\ \E observacoes \in Observacoes, resp \in PostResponses :
          LET r       == post_json(resp)
              content == compose_private_message(norm_priority_str(args.prioridade),
                                                 observacoes)
              post    == PostCall("messages", pc, resp, JNull, JNull, JNull, content)
          IN  IF Aborts(r.status_code)
              THEN \E again \in ConvGetResponses(args.conversation_id, conv) :
                      /\ calls' = calls \o <<post, GetCall("conversation", 0, pc, again)>>
                      /\ result' = [get_conversation_simple(again, args.conversation_id)
                                       EXCEPT !.step = "message_error",
                                              !.message_error = r.res]
                      /\ pc' = "Done"
                      /\ entered' = entered
              ELSE /\ calls' = Append(calls, post)
                   /\ result' = result
                   /\ pc' = "ReturnStatus"
                   /\ entered' = Append(entered, "ReturnStatus")
    /\ UNCHANGED <<response, two, conv0, args, cfg, conv, current, pk, it>>

\* the end of the workflow without the re-fetch: the status of CheckAssigned
ReturnStatusStale ==
    /\ pc = "ReturnStatus"
    /\ result' = current
    /\ pc' = "Done"
    /\ UNCHANGED <<response, two, conv0, args, cfg, conv, current, calls, entered, pk, it>>

\* lines 489-490
ReturnStatus ==
    /\ pc = "ReturnStatus"
    /\ \E resp \in ConvGetResponses(args.conversation_id, conv) :
          /\ calls' = Append(calls, GetCall("conversation", 0, pc, resp))
          /\ result' = get_conversation_simple(resp, args.conversation_id)
    /\ pc' = "Done"
    /\ UNCHANGED <<response, two, conv0, args, cfg, conv, current, entered, pk, it>>

Next ==
    \/ CheckAssigned
    \/ AssignTeam
    \/ SetPriority
    \/ WorkflowPickMembers
    \/ WorkflowPickLoads
    \/ AssignAgent
    \/ PickRaised
    \/ PostPrivateNote
    \/ ReturnStatus

Spec == Init /\ [][Next]_vars

(***************************************************************************)
(* service.py: the /auto_assign endpoint                                   *)
(***************************************************************************)
\* result.get("error"): the value under "error" is truthy
ResultError(r) ==
    CASE r.shape = "raw" -> "error" \in r.raw.keys /\ r.raw.error # ""
      [] r.shape = "fetch_failed" -> TRUE
      [] OTHER -> FALSE

\* line 88: result.get("error") and result.get("step") != "message_error"
Critical(r) == ResultError(r) /\ r.step # "message_error"

\* lines 33-35 and 79: the request carries no valid x-api-key
Unauthorized ==
    /\ pc = "CheckAssigned"
    /\ response' = [status_code |-> 401, body |-> NoResult]
    /\ pc' = "Responded"
    /\ UNCHANGED <<two, conv0, args, cfg, conv, current, calls, entered, result, pk, it>>

\* lines 87-90: the workflow returned; 502 with the result as detail on a
\* critical failure, the result itself otherwise
Respond ==
    /\ pc = "Done"
    /\ response' = [status_code |-> IF Critical(result) THEN 502 ELSE 200, body |-> result]
    /\ pc' = "Responded"
    /\ UNCHANGED <<two, conv0, args, cfg, conv, current, calls, entered, result, pk, it>>

\* lines 77-90: the handler runs the workflow to its return, then answers
NextService == Next \/ Unauthorized \/ Respond

SpecService == Init /\ [][NextService]_vars

\* the record's own team_id disagrees, as a string, with the requested team
TeamDiffers(rec, team_id) ==
    rec.team_id.t # "null" /\ PyStr(rec.team_id) # PyStr(team_id)

\* the mapping records of a page whose team does not disagree, in page order
PassingRecords(page, team_id) ==
    SelectSeq(page, LAMBDA run : run.rec.dict /\ ~TeamDiffers(run.rec, team_id))

\* every record yielded so far is a mapping of the requested team or of none
C11_YieldedOfRequestedTeam ==
    \A i \in 1..Len(it.yielded) :
        it.yielded[i].rec.dict /\ ~TeamDiffers(it.yielded[i].rec, args.team_id)

\* C11: no yielded record has a team_id that differs, as a string, from the
\* requested team, and each page fetched adds to the records yielded exactly
\* its mapping records whose team_id does not differ, in page order.
C11_TeamRevalidation ==
    [][/\ C11_YieldedOfRequestedTeam'
       /\ it'.yielded = RCat(it.yielded, PassingRecords(it'.fetched, args.team_id))]_vars

\* a page that held a record of another team, a record that is no mapping and
\* records of the requested team, after which only the latter are yielded
C11_ForeignRecordDropped ==
    /\ \E i \in 1..Len(it.fetched) : TeamDiffers(it.fetched[i].rec, args.team_id)
    /\ \E i \in 1..Len(it.fetched) : ~TeamDiffers(it.fetched[i].rec, args.team_id)
    /\ it.yielded # <<>>
    /\ C11_YieldedOfRequestedTeam
    /\ it.requests >= 2

(***************************************************************************)
(* Two overlapping invocations of the workflow for one team and two        *)
(* conversations, each taken at line 454 with its team and priority POSTs  *)
(* accepted. two.base is the team's other active conversations,            *)
(* two.inv[p].agent the remote assignee of the conversation of p,          *)
(* two.commits the number of agent assignments the remote has applied,     *)
(* two.inv[p].seen that number when p fetched the listing.                 *)
(***************************************************************************)
Invocations == {1, 2}

TwoCalled ==
    [pc |-> "members", members |-> <<>>, loads |-> <<>>, ret |-> PickNone,
     seen |-> 0, agent |-> JNull]

\* the team's active conversations besides those of the two invocations
TwoBases(team) ==
    {<<>>,
     <<[rec |-> Conv(team, JInt(9)), n |-> 1]>>,
     <<[rec |-> Conv(team, JInt(10)), n |-> 2], [rec |-> Conv(team, JInt(9)), n |-> 1]>>}

\* the roster the remote serves: two agents in either order, none, and a
\* numeric and a non-numeric id
TwoRosters ==
    LET item(a) == DirectItem(a, AgentName)
    IN  {Http(200, RosterList(<<item(JInt(9)), item(JInt(10))>>)),
         Http(200, RosterList(<<item(JInt(10)), item(JInt(9))>>)),
         Http(200, RosterList(<<>>)),
         Http(200, RosterList(<<item(JInt(9)), item(JStr(IdA))>>))}

\* the listing of the team's active conversations as the remote holds it now
RemoteListing(t, team) ==
    RCat(t.base, <<[rec |-> Conv(team, t.inv[1].agent), n |-> 1],
                   [rec |-> Conv(team, t.inv[2].agent), n |-> 1]>>)

\* line 280 in invocation p
TwoMembers(p) ==
    /\ two.inv[p].pc = "members"
    /\ \E resp \in TwoRosters :
          LET members == get_team_members(resp)
          IN  /\ calls' = Append(calls, GetCall("team_members", 0, "MaybeAssignAgent", resp))
              /\ two' = IF members = <<>>
                        THEN [two EXCEPT !.inv[p].pc = "done"]
                        ELSE [two EXCEPT !.inv[p].pc = "loads", !.inv[p].members = members]
    /\ UNCHANGED <<response, pc, args, cfg, conv, conv0, current, entered, result, pk, it>>

\* lines 284-295 in invocation p: the load map from the listing the remote
\* holds at this moment, then the selection
TwoLoads(p) ==
    /\ two.inv[p].pc = "loads"
    /\ LET resps == <<Http(200, PageList(RemoteListing(two, args.team_id)))>>
           r     == iter_conversations(resps, args.team_id)
           loads == get_active_load_by_assignee(r.yielded)
           ret   == pick_sorted_first(two.inv[p].members, loads)
       IN  /\ calls' = calls \o [i \in 1..r.requests |->
                                    GetCall("conversations", i, "MaybeAssignAgent",
                                            RespAt(resps, i))]
           /\ two' = [two EXCEPT !.inv[p].pc = IF ret.kind = "raise" THEN "raised"
                                                ELSE "assign",
                                 !.inv[p].loads = loads,
                                 !.inv[p].ret = ret,
                                 !.inv[p].seen = two.commits]
    /\ UNCHANGED <<response, pc, args, cfg, conv, conv0, current, entered, result, pk, it>>

\* lines 457-471 in invocation p: the agent selected is posted
TwoPostSelection(p) ==
    /\ two.inv[p].pc = "assign"
    /\ IF NotChosen(two.inv[p].ret)
       THEN /\ two' = [two EXCEPT !.inv[p].pc = "done"]
            /\ calls' = calls
       ELSE \E resp \in PostResponses :
               /\ calls' = Append(calls, PostCall("assignments", "MaybeAssignAgent", resp,
                                                  args.team_id, JStr(two.inv[p].ret.id),
                                                  JNull, NoContent))
               /\ two' = IF Committed(resp)
                         THEN [two EXCEPT !.inv[p].pc = "done",
                                          !.inv[p].agent = RemoteId(two.inv[p].ret.id),
                                          !.commits = @ + 1]
                         ELSE [two EXCEPT !.inv[p].pc = "done"]
    /\ UNCHANGED <<response, pc, args, cfg, conv, conv0, current, entered, result, pk, it>>

\* the assignment refused when the remote has applied an assignment since the
\* listing of p was taken
TwoAssignFresh(p) == two.inv[p].seen = two.commits /\ TwoPostSelection(p)

TwoAssign(p) == TwoPostSelection(p)

InitTwo ==
    /\ pc = "MaybeAssignAgent"
    /\ args \in {[NoArgs EXCEPT !.team_id = t] : t \in TeamIds}
    /\ cfg = {}
    /\ conv = NoConv
    /\ conv0 = NoConv
    /\ response = NoResponse
    /\ current = NoResult
    /\ calls = <<>>
    /\ entered = <<>>
    /\ result = NoResult
    /\ pk = PickIdle
    /\ it = IterStart
    /\ two \in {[base |-> b, commits |-> 0, inv |-> <<TwoCalled, TwoCalled>>] :
                    b \in TwoBases(args.team_id)}

NextTwo == \E p \in Invocations : TwoMembers(p) \/ TwoLoads(p) \/ TwoAssign(p)

SpecTwo == InitTwo /\ [][NextTwo]_vars

(***************************************************************************)
(* Claims about get_team_members                                           *)
(***************************************************************************)
\* C15: every member of the roster returned has an id, a non-empty string,
\* and no two members of it have the same id, whatever the remote's payload.
C15_RosterIdsPresentAndUnique ==
    pk.pc = "fetched" =>
        /\ \A i \in 1..Len(pk.members) : pk.members[i].id # <<>>
        /\ \A i, j \in 1..Len(pk.members) :
              i # j => pk.members[i].id # pk.members[j].id

\* what the code does for C15: every member has a non-empty string for id
C15_RosterIdsPresent ==
    pk.pc = "fetched" => \A i \in 1..Len(pk.members) : pk.members[i].id # <<>>

\* the user 9 listed twice, once by id and once by user_id, and returned twice
C15_SameUserTwice ==
    /\ pk.pc = "fetched"
    /\ Len(pk.members) = 2
    /\ pk.members[1].id = Id9
    /\ pk.members[2].id = Id9
    /\ calls[1].code = 200

(***************************************************************************)
(* Claims about get_active_load_by_assignee                                *)
(***************************************************************************)
RECURSIVE SumN(_, _)
\* the number of records in the runs of y with index in S
SumN(y, S) ==
    IF S = {} THEN 0
    ELSE LET i == CHOOSE j \in S : TRUE IN y[i].n + SumN(y, S \ {i})

RECURSIVE SumLoads(_, _)
\* the sum of the counts of the keys K
SumLoads(loads, K) ==
    IF K = {} THEN 0
    ELSE LET k == CHOOSE j \in K : TRUE IN loads[k] + SumLoads(loads, K \ {k})

\* the runs of yielded records that carry an assignee_id
Assigned(y) == {i \in 1..Len(y) : y[i].rec.assignee_id.t # "null"}

\* the runs whose assignee_id is the agent id a, ids being strings
AssignedTo(y, a) == {i \in Assigned(y) : PyStr(y[i].rec.assignee_id) = a}

\* C12: in the map returned, the count of every agent id is the number of
\* yielded records whose assignee_id is that id (an id without record has no
\* count); records without assignee_id add to no count; every key is an
\* assignee id of some yielded record, with count >= 1; the counts sum to the
\* number of yielded records that carry an assignee_id.
C12_LoadCountsYielded ==
    pk.pc = "counted" =>
        LET y     == it.yielded
            loads == pk.loads
            ids   == {PyStr(a) : a \in AgentIds \cup {JNull}} \cup DOMAIN loads
        IN  /\ \A a \in ids :
                  SumN(y, AssignedTo(y, a)) = (IF a \in DOMAIN loads THEN loads[a] ELSE 0)
            /\ \A k \in DOMAIN loads : loads[k] >= 1 /\ AssignedTo(y, k) # {}
            /\ SumLoads(loads, DOMAIN loads) = SumN(y, Assigned(y))

\* a listing of two pages with records of one agent under the ids 9 and "9",
\* counted together, and a record without assignee
C12_TwoPagesCounted ==
    /\ pk.pc = "counted"
    /\ it.requests = 2
    /\ \E i \in 1..Len(it.yielded) : it.yielded[i].rec.assignee_id = JInt(9)
    /\ \E i \in 1..Len(it.yielded) : it.yielded[i].rec.assignee_id = JStr(Id9)
    /\ \E i \in 1..Len(it.yielded) : it.yielded[i].rec.assignee_id = JNull
    /\ pk.loads[Id9] > DefaultPerPage

(***************************************************************************)
(* Claims about auto_assign_team_then_agent                                *)
(***************************************************************************)
CallIdx == 1..Len(calls)

IsPost(c) == c.m = "POST"

\* the call came back as a failure: a GET without payload, a POST with status
\* 0 or >= 400
CallFailed(c) == IF c.m = "GET" THEN ~c.ok ELSE c.code = 0 \/ c.code >= 400

PostCount(st) == Cardinality({i \in CallIdx : IsPost(calls[i]) /\ calls[i].st = st})

WasEntered(st) == \E i \in 1..Len(entered) : entered[i] = st

\* the workflow entered st and has left it
Left(st) == WasEntered(st) /\ pc # st

StateOrder ==
    <<"CheckAssigned", "AssignTeam", "SetPriority", "MaybeAssignAgent",
      "PostPrivateNote", "ReturnStatus">>

StateIndex(st) == CHOOSE k \in 1..Len(StateOrder) : StateOrder[k] = st

AbortingStates == {"AssignTeam", "SetPriority", "MaybeAssignAgent"}

MutatingStates == AbortingStates \cup {"PostPrivateNote"}

StepTag(st) ==
    CASE st = "AssignTeam"  -> "assign_team"
      [] st = "SetPriority" -> "priority"
      [] OTHER              -> "assign_agent"

\* C1: whenever the status fetched in CheckAssigned carries a non-null
\* assignee id (0 included), the workflow issues no POST and returns that
\* status with step = "already_assigned".
C1_NonNullAssigneeNoOp ==
    (current.shape = "status" /\ current.assignee.id.t # "null") =>
        /\ \A i \in CallIdx : ~IsPost(calls[i])
        /\ pc = "Done"
        /\ result = [current EXCEPT !.step = "already_assigned"]

\* the status fetched shows assignee id 0 and the workflow went on to POST
C1_ZeroAssigneeProceeds ==
    /\ current.shape = "status"
    /\ current.assignee.id = JInt(0)
    /\ \E i \in CallIdx : IsPost(calls[i])

\* what the code does for C1: the no-op for an assignee id that is truthy
C1_TruthyAssigneeNoOp ==
    (current.shape = "status" /\ Truthy(current.assignee.id)) =>
        /\ \A i \in CallIdx : ~IsPost(calls[i])
        /\ pc = "Done"
        /\ result = [current EXCEPT !.step = "already_assigned"]

LinearOrder ==
    /\ \A i, j \in 1..Len(entered) :
          i < j => StateIndex(entered[i]) < StateIndex(entered[j])
    /\ pc \notin {"Done", "Raised"} => pc = entered[Len(entered)]
    /\ \A i \in CallIdx : WasEntered(calls[i].st)
    /\ \A i, j \in CallIdx :
          (i < j /\ IsPost(calls[i]) /\ IsPost(calls[j])) =>
              StateIndex(calls[i].st) < StateIndex(calls[j].st)

\* each POST is the mutation of its state
PostOfItsState ==
    \A i \in CallIdx :
        IsPost(calls[i]) =>
            LET c == calls[i]
            IN  CASE c.st = "AssignTeam" ->
                       c.ep = "assignments" /\ c.team_id = args.team_id
                                            /\ c.assignee_id.t = "null"
                  [] c.st = "SetPriority" -> c.ep = "toggle_priority"
                  [] c.st = "MaybeAssignAgent" ->
                       c.ep = "assignments" /\ c.team_id = args.team_id
                                            /\ c.assignee_id.t # "null"
                  [] c.st = "PostPrivateNote" -> c.ep = "messages"
                  [] OTHER -> FALSE

\* C3 as claimed: the states are entered in the fixed order, none twice, and
\* each of AssignTeam, SetPriority, MaybeAssignAgent, PostPrivateNote that
\* was entered performed exactly one POST, that of its state.
C3_ExactlyOnePostPerState ==
    /\ LinearOrder
    /\ PostOfItsState
    /\ \A st \in MutatingStates : Left(st) => PostCount(st) = 1

\* C3, amended: the states are entered in the fixed order, none twice; the
\* POSTs are those of the states, in that order; AssignTeam, SetPriority and
\* PostPrivateNote each perform exactly one POST, MaybeAssignAgent performs
\* one when the selection returned an agent and none otherwise, CheckAssigned
\* and ReturnStatus perform none.
C3_LinearOrderAtMostOnePost ==
    /\ LinearOrder
    /\ PostOfItsState
    /\ \A st \in {"AssignTeam", "SetPriority", "PostPrivateNote"} :
          Left(st) => PostCount(st) = 1
    /\ Left("MaybeAssignAgent") =>
          PostCount("MaybeAssignAgent") = (IF pk.ret.kind = "id" THEN 1 ELSE 0)

\* a run through all six states with its four POSTs
C3_AllStatesEntered ==
    /\ pc = "Done"
    /\ entered = StateOrder
    /\ Cardinality({i \in CallIdx : IsPost(calls[i])}) = 4

\* a run through MaybeAssignAgent without an agent
C3_NoAgentNoPost ==
    /\ pc = "Done"
    /\ entered = StateOrder
    /\ PostCount("MaybeAssignAgent") = 0

NoteFailed ==
    \E i \in CallIdx : calls[i].ep = "messages" /\ CallFailed(calls[i])

\* C4: when the private note fails, the workflow returns a well-formed status
\* without an error key, with step = "message_error" and the note's failure
\* under message_error, its team and priority those of the remote
\* conversation, whatever the outcome of the re-fetch.
C4_NoteFailureReturnsStatus ==
    (pc = "Done" /\ NoteFailed) =>
        /\ result.shape = "status"
        /\ "error" \notin Keys(result)
        /\ result.step = "message_error"
        /\ \E i \in CallIdx : calls[i].ep = "messages" /\ result.message_error = calls[i].res
        /\ result.team.id = conv.team
        /\ result.priority = conv.priority

\* the note failed, the re-fetch failed, and the fetch_failed record came back
C4_NoteAndRefetchFailed ==
    /\ pc = "Done"
    /\ NoteFailed
    /\ ~calls[Len(calls)].ok
    /\ result.shape = "fetch_failed"
    /\ result.step = "message_error"

\* what the code does for C4: the status when the re-fetch succeeds, the
\* fetch_failed record when it fails
C4_NoteFailureReturnsRefetch ==
    (pc = "Done" /\ NoteFailed) =>
        /\ result.step = "message_error"
        /\ \E i \in CallIdx : calls[i].ep = "messages" /\ result.message_error = calls[i].res
        /\ IF calls[Len(calls)].ok
           THEN /\ result.shape = "status"
                /\ "error" \notin Keys(result)
                /\ result.team.id = conv.team
                /\ result.priority = conv.priority
           ELSE result.shape = "fetch_failed" /\ "error" \in Keys(result)

\* MaybeAssignAgent ended without an agent
Degraded == Left("MaybeAssignAgent") /\ pk.ret.kind = "none"

NoteIdx == {i \in CallIdx : calls[i].ep = "messages"}

\* C5: auto-assignment triggered and no agent found: the workflow does not
\* abort; it issues no agent-assignment POST, posts the private note and,
\* when the note and the final fetch succeed, returns the status without
\* annotation, with the requested team and with the assignee the conversation
\* had, which is none the workflow could see: it assigned no agent.
C5_DegradeWithoutAgent ==
    Degraded =>
        /\ PostCount("MaybeAssignAgent") = 0
        /\ pc # "Raised" /\ result.step # "assign_agent"
        /\ WasEntered("PostPrivateNote")
        /\ Left("PostPrivateNote") => NoteIdx # {}
        /\ (pc = "Done" /\ ~NoteFailed /\ calls[Len(calls)].ok) =>
              /\ result.shape = "status"
              /\ Keys(result) = {"conversation_id", "status", "priority", "assignee", "team"}
              /\ result.team.id = args.team_id
              /\ result.assignee.id = conv0.assignee
              /\ current.shape = "status" => ~Truthy(result.assignee.id)

\* the degraded run ended in success
C5_DegradedSuccess ==
    /\ Degraded
    /\ pc = "Done"
    /\ result.shape = "status"
    /\ result.step = ""
    /\ result.team.id = args.team_id
    /\ result.assignee.id.t = "null"
    /\ StrUrgent \in cfg

\* the normalization the claim states, as a table
ExpectedNorm(p) ==
    CASE p = JInt(0) \/ p = JStr(StrLow)    -> JStr(StrLow)
      [] p = JInt(1) \/ p = JStr(StrMedium) -> JStr(StrMedium)
      [] p = JInt(2) \/ p = JStr(StrHigh)   -> JStr(StrHigh)
      [] p = JInt(3) \/ p = JStr(StrUrgent) -> JStr(StrUrgent)
      [] OTHER -> p

\* the lower-cased normalized priority, as a table over Prioridades
ExpectedLower(p) ==
    CASE p = JStr(StrUrgentCap) -> StrUrgent
      [] p = JInt(7)            -> <<55>>
      [] OTHER                  -> ExpectedNorm(p).s

\* SetPriority's POST was accepted
PrioritySet ==
    \E i \in CallIdx : calls[i].st = "SetPriority" /\ ~CallFailed(calls[i])

\* C8: the codes 0..3 and the names normalize to low, medium, high, urgent,
\* any other value passes unchanged; the normalized value is what SetPriority
\* posts; once SetPriority succeeded, MaybeAssignAgent is entered if and only
\* if the lower-cased normalized priority is in the trigger set, so 3 and
\* "urgent" both trigger it when "urgent" is in the set.
C8_NormalizeAndTrigger ==
    /\ norm_priority(args.prioridade) = ExpectedNorm(args.prioridade)
    /\ \A i \in CallIdx :
          calls[i].ep = "toggle_priority" => calls[i].priority = ExpectedNorm(args.prioridade)
    /\ \A i \in NoteIdx : calls[i].content.prioridade = ExpectedLower(args.prioridade)
    /\ WasEntered("MaybeAssignAgent") => PrioritySet
    /\ PrioritySet =>
          (WasEntered("MaybeAssignAgent") <=> ExpectedLower(args.prioridade) \in cfg)
    /\ (PrioritySet /\ args.prioridade \in {JInt(3), JStr(StrUrgent)} /\ StrUrgent \in cfg)
          => WasEntered("MaybeAssignAgent")

\* the code 3 triggered the auto-assignment
C8_CodeThreeTriggers ==
    /\ args.prioridade = JInt(3)
    /\ WasEntered("MaybeAssignAgent")
    /\ \E i \in CallIdx : calls[i].ep = "toggle_priority" /\ calls[i].priority = JStr(StrUrgent)

SameRequest(a, b) ==
    /\ a.m = b.m /\ a.ep = b.ep /\ a.page = b.page
    /\ a.team_id = b.team_id /\ a.assignee_id = b.assignee_id
    /\ a.priority = b.priority /\ a.content = b.content

\* the failures the returned dict reports: the tagged response of an aborting
\* POST, the note's failure under message_error, the fetch_failed record
Surfaced(r) ==
    (IF r.shape = "raw" THEN 1 ELSE 0)
    + (IF r.message_error.t # "none" THEN 1 ELSE 0)
    + (IF r.shape = "fetch_failed" THEN 1 ELSE 0)

FailedIdx == {i \in CallIdx : CallFailed(calls[i])}

\* the failed calls the workflow neither returns nor reports: the fetch of
\* CheckAssigned, the roster and the listing pages of MaybeAssignAgent
SwallowedIdx ==
    {i \in FailedIdx : calls[i].m = "GET" /\ calls[i].st \in {"CheckAssigned", "MaybeAssignAgent"}}

\* C10: no failed remote call is issued again, and the returned result
\* reports every failed call of the invocation, each once, a failed roster
\* fetch and a failed listing-page fetch included.
C10_EveryFailureSurfacedOnce ==
    /\ \A i, j \in CallIdx :
          (i < j /\ CallFailed(calls[i])) => ~SameRequest(calls[i], calls[j])
    /\ pc = "Done" => Surfaced(result) = Cardinality(FailedIdx)

\* what the code does for C10: no failed POST, roster fetch or listing-page
\* fetch is issued again (only the status fetch is, at the end, after
\* CheckAssigned's fetch failed); the returned result reports, each once, every
\* failed POST and a failed final status fetch; a failed fetch of
\* CheckAssigned, of the roster or of a listing page is reported nowhere.
C10_NoRetryPostFailuresSurfaced ==
    /\ \A i, j \in CallIdx :
          (i < j /\ CallFailed(calls[i]) /\ SameRequest(calls[i], calls[j])) =>
              /\ calls[i].st = "CheckAssigned"
              /\ calls[j].st \in {"PostPrivateNote", "ReturnStatus"}
              /\ j = Len(calls)
    /\ pc = "Done" =>
          /\ Surfaced(result) = Cardinality(FailedIdx \ SwallowedIdx)
          /\ \A i \in FailedIdx \ SwallowedIdx :
                CASE calls[i].st \in AbortingStates ->
                       result = Tagged(calls[i].res, StepTag(calls[i].st))
                  [] IsPost(calls[i]) -> result.message_error = calls[i].res
                  [] OTHER -> result.shape = "fetch_failed" /\ i = Len(calls)

\* a failed roster fetch and a failed listing page, and a result that reports
\* no failure
C10_SwallowedFetchFailures ==
    /\ pc = "Done"
    /\ Surfaced(result) = 0
    /\ \E i \in SwallowedIdx : calls[i].ep = "conversations"
    /\ \E j \in CallIdx : calls[j].st = "SetPriority"

\* the run passed CheckAssigned, ended, and each of its POSTs was answered
\* with a status in 1..399
FullSuccess ==
    /\ pc \in {"Done", "Raised"}
    /\ WasEntered("AssignTeam")
    /\ \A i \in CallIdx : IsPost(calls[i]) => calls[i].code \in 1..399

\* the last remote call is the GET of the conversation that ReturnStatus
\* issues, right after the POST of the private note
EndsWithRefetch ==
    /\ Len(calls) >= 2
    /\ calls[Len(calls)].m = "GET"
    /\ calls[Len(calls)].ep = "conversation"
    /\ calls[Len(calls)].st = "ReturnStatus"
    /\ calls[Len(calls) - 1].ep = "messages"

\* r is the simplified status of the remote conversation, without annotation
PlainStatusOfRemote(r) ==
    /\ r.shape = "status"
    /\ Keys(r) = {"conversation_id", "status", "priority", "assignee", "team"}
    /\ r.conversation_id = args.conversation_id
    /\ r.priority = conv.priority
    /\ r.team.id = conv.team
    /\ r.assignee.id = conv.assignee

Selected(p) == two.inv[p].pc \in {"assign", "done"} /\ two.inv[p].ret.kind = "id"

\* p and q took their listing from the same remote snapshot, the one before
\* any of the two agent assignments
SameSnapshot(p, q) ==
    /\ Selected(p) /\ Selected(q)
    /\ two.inv[p].seen = 0 /\ two.inv[q].seen = 0

\* the agents of the roster of p with fewer conversations on the remote than a
LessLoadedNow(p, a) ==
    LET now == get_active_load_by_assignee(RemoteListing(two, args.team_id))
    IN  {m \in MemberIds(two.inv[p].members) : LoadOf(now, m) < LoadOf(now, a)}

\* C14: two invocations that took their listing from the same snapshot, before
\* either agent assignment was committed, computed the same load map and, for
\* the same roster, selected the same agent; an invocation whose snapshot has
\* gone stale is not held back, it can still post the agent it selected; and
\* the agent a conversation ends with is the one its invocation selected.
C14_StaleSnapshotSameAgent ==
    \A p \in Invocations : \A q \in Invocations \ {p} :
        /\ SameSnapshot(p, q) => two.inv[p].loads = two.inv[q].loads
        /\ (SameSnapshot(p, q) /\ MemberIds(two.inv[p].members) = MemberIds(two.inv[q].members))
              => two.inv[p].ret = two.inv[q].ret
        /\ (two.inv[p].pc = "assign" /\ two.inv[p].seen < two.commits) => ENABLED TwoAssign(p)
        /\ two.inv[p].agent.t # "null" =>
              Selected(p) /\ two.inv[p].agent = RemoteId(two.inv[p].ret.id)

\* both invocations listed before either assignment was committed, selected
\* the same agent and assigned it: that agent now has two conversations more
\* than the snapshot showed, the other agent of the roster none
C14_BothAssignedSameAgent ==
    /\ SameSnapshot(1, 2)
    /\ two.inv[1].pc = "done" /\ two.inv[2].pc = "done"
    /\ two.commits = 2
    /\ two.inv[1].agent = two.inv[2].agent
    /\ two.inv[1].agent = JInt(9)
    /\ two.inv[1].loads = two.inv[2].loads
    /\ MemberIds(two.inv[1].members) = {Id9, Id10}
    /\ two.base = <<>>
    /\ LessLoadedNow(1, Id9) = {Id10}

(***************************************************************************)
(* Claims about get_conversation_simple                                    *)
(***************************************************************************)
\* C16: get_conversation_simple always returns a record: the fetch_failed
\* record carrying the requested conversation id when the fetch failed or the
\* body holds nothing resolvable, and otherwise a status without an error key.
C16_LookupReturnsRecord ==
    pk.pc = "looked" =>
        \/ /\ result.shape = "fetch_failed"
           /\ result.conversation_id = args.conversation_id
           /\ pk.payload.t # "dict"
        \/ /\ result.shape = "status"
           /\ "error" \notin Keys(result)
           /\ pk.payload.t = "dict"

\* a 200 whose body is a JSON list holding a mapping: the lookup raised
C16_LookupRaised ==
    /\ pk.pc = "looked"
    /\ calls[1].code = 200
    /\ pk.payload.t = "list"
    /\ pk.payload.items # <<>>
    /\ result.shape = "raised"

(***************************************************************************)
(* Claims about _simplify_conversation_payload                             *)
(***************************************************************************)
\* the first of the nested shapes with a usable id, NoObj when there is none
Winner(meta, top) ==
    IF meta.t = "obj" /\ meta.id.t # "null" THEN meta
    ELSE IF top.t = "obj" /\ top.id.t # "null" THEN top
    ELSE NoObj

\* the id and the name of the first shape with a usable id; the name is the
\* stringified id when that shape has no name
ResolvedFrom(meta, top, flat, name) ==
    LET w == Winner(meta, top)
    IN  IF w.t = "obj"
        THEN [id |-> w.id, name |-> IF name[w].t = "null" THEN JStr(PyStr(w.id)) ELSE name[w]]
        ELSE IF flat.t # "null" THEN [id |-> flat, name |-> JStr(PyStr(flat))]
        ELSE NoPerson

Shapes(p) == {p.meta_assignee, p.meta_team, p.assignee, p.team}

\* C17: the assignee and the team of the simplified status come, id and name
\* both, from the first of meta object, top-level object and flat scalar that
\* has a usable id; the name is the stringified id when that shape has none.
C17_FirstUsableShapeWins ==
    pk.pc = "looked" /\ result.shape = "status" =>
        LET p == pk.payload
        IN  /\ result.assignee = ResolvedFrom(p.meta_assignee, p.assignee, p.assignee_id,
                                              [o \in Shapes(p) |-> pick_name(o)])
            /\ result.team = ResolvedFrom(p.meta_team, p.team, p.team_id,
                                          [o \in Shapes(p) |-> o.name])

\* the id of the top-level assignee returned under the name of meta.assignee,
\* which has no id
C17_NameFromLosingShape ==
    /\ pk.pc = "looked"
    /\ result.shape = "status"
    /\ pk.payload.meta_assignee = Obj(JNull, AgentName)
    /\ pk.payload.assignee = Obj(JInt(10), OtherName)
    /\ result.assignee = [id |-> JInt(10), name |-> AgentName]

\* the part of C17 about flat records: only assignee_id and team_id scalars
\* give names equal to the stringified ids
C17_FlatScalarsNamedById ==
    pk.pc = "looked" /\ result.shape = "status"
    /\ Shapes(pk.payload) = {NoObj} =>
        /\ result.assignee =
              IF pk.payload.assignee_id.t = "null" THEN NoPerson
              ELSE [id |-> pk.payload.assignee_id, name |-> JStr(PyStr(pk.payload.assignee_id))]
        /\ result.team =
              IF pk.payload.team_id.t = "null" THEN NoPerson
              ELSE [id |-> pk.payload.team_id, name |-> JStr(PyStr(pk.payload.team_id))]

(***************************************************************************)
(* Claims about _extract_list_like                                         *)
(***************************************************************************)
\* C18: extract_list_like returns a list it is given unchanged, so applying
\* it to the list it returned, for any payload, returns that same list.
C18_ExtractIdempotent ==
    [][/\ (pk.pc = "extract" /\ pk.payload.t = "list" /\ pk'.pc = "extracted"
            => pk'.ret = pk.payload.items)
       /\ (pk.pc = "extracted" /\ pk'.pc = "reextracted" => pk'.ret = pk.ret)]_vars

\* a mapping with a list under a key that is not preferred: wrapped once by
\* the first call and left alone by the second
C18_WrappedOnce ==
    /\ pk.pc = "reextracted"
    /\ pk.payload.t = "dict"
    /\ pk.payload.items # <<>>
    /\ pk.ret = <<[rec |-> pk.payload.obj, n |-> 1]>>

(***************************************************************************)
(* Claims about the /auto_assign endpoint                                  *)
(***************************************************************************)
AbortSteps == {"assign_team", "priority", "assign_agent"}

Answered == pc = "Responded" /\ response.status_code # 401

\* C19: the endpoint answers 502 whenever the workflow aborted at assign_team,
\* priority or assign_agent, whatever the body of the remote's response, and
\* answers with the simplified status and its message_error metadata, not
\* with 502, when only the private note failed.
C19_CriticalFailures502 ==
    Answered =>
        /\ result.step \in AbortSteps => response.status_code = 502
        /\ NoteFailed =>
              /\ response.status_code = 200
              /\ response.body = result
              /\ result.shape = "status"
              /\ result.step = "message_error"
              /\ result.message_error.t # "none"

\* the abort half of C19 alone
C19_Aborts502 ==
    Answered /\ result.step \in AbortSteps => response.status_code = 502

\* what the code does: 502 exactly for the returns with a truthy "error" and
\* a step other than message_error
C19_502IffErrorKey ==
    Answered =>
        (response.status_code = 502 <=>
            (ResultError(result) /\ result.step # "message_error"))

\* the team assignment rejected with 404 and a body without "error": the
\* endpoint answered 200 with that body
C19_AbortAnswered200 ==
    /\ Answered
    /\ result.step = "assign_team"
    /\ calls[Len(calls)].code = 404
    /\ "error" \notin Keys(result)
    /\ response.status_code = 200

(***************************************************************************)
(* Claims about partial commits                                            *)
(***************************************************************************)
\* the POSTs of the workflow's own steps: what each state sends forward
ForwardPost(c) ==
    CASE c.st = "AssignTeam"       -> c.ep = "assignments" /\ c.team_id = args.team_id
                                      /\ c.assignee_id = JNull
      [] c.st = "SetPriority"      -> c.ep = "toggle_priority"
                                      /\ c.priority = norm_priority(args.prioridade)
      [] c.st = "MaybeAssignAgent" -> c.ep = "assignments" /\ c.team_id = args.team_id
                                      /\ c.assignee_id # JNull
      [] OTHER                     -> c.ep = "messages"

\* C20: after an abort at priority or assign_agent the team assigned by the
\* invocation, and the priority when the abort is at assign_agent, are still
\* those of the remote conversation; the rejected POST is the invocation's
\* last call and every POST of it is the forward POST of its state, sent once.
C20_PartialCommitStays ==
    pc = "Done" /\ result.step \in {"priority", "assign_agent"} =>
        /\ conv.team = args.team_id
        /\ result.step = "assign_agent" => conv.priority = norm_priority(args.prioridade)
        /\ result.step = "priority" => conv.priority = conv0.priority
        /\ conv.assignee = conv0.assignee
        /\ IsPost(calls[Len(calls)]) /\ CallFailed(calls[Len(calls)])
        /\ StepTag(calls[Len(calls)].st) = result.step
        /\ \A i \in CallIdx : IsPost(calls[i]) => ForwardPost(calls[i])
        /\ \A st \in MutatingStates : PostCount(st) <= 1

\* abort at assign_agent: the conversation, which had no team and no
\* priority, keeps the team and the priority the invocation gave it
C20_AbortedWithTeamAndPriority ==
    /\ pc = "Done"
    /\ result.step = "assign_agent"
    /\ conv0.team = JNull /\ conv0.priority = JNull
    /\ conv.team = args.team_id
    /\ conv.priority = JStr(StrUrgent)
    /\ PostCount("AssignTeam") = 1 /\ PostCount("SetPriority") = 1

(***************************************************************************)
(* Claims about a failed lookup in CheckAssigned                           *)
(***************************************************************************)
AssignTeamIdx == {i \in CallIdx : calls[i].st = "AssignTeam"}

====
